---- MODULE Spec2Model ----
(***************************************************************************)
(* A model of code-rag-review: the line-windowed chunker (chunker.ts), the *)
(* chunk identity key and the index build (indexer.ts), the embedding      *)
(* client (ollama.ts) and the persisted index (store.ts).                  *)
(*                                                                         *)
(* Strings are sequences of one-character strings, so that split, join,    *)
(* length and concatenation are computed as the code computes them.        *)
(***************************************************************************)
EXTENDS Integers, Sequences, FiniteSets, TLC

(***************************************************************************)
(* Bounds of the model.                                                    *)
(***************************************************************************)
MaxTextLen == 5
MaxChunkSize == 4
MaxOverlap == 3
MaxBuilds == 2
MaxEdits == 1
MaxFaults == 2
SmallChunkSize == 1
SmallBatchSize == 1
MaxBatchSize == 3
MaxIdleCalls == 2
MaxMantissa == 2
MaxDim == 2
LargeExponent == 600
MaxRetrieved == 3
MaxTopK == 4

\* The defaults of the index command (cli.ts).
DefaultChunkSize == 1400
DefaultOverlapLines == 20
DefaultBatchSize == 16

Min(a, b) == IF a < b THEN a ELSE b
Max(a, b) == IF a > b THEN a ELSE b

(***************************************************************************)
(* chunker.ts: chunkTextByLines                                            *)
(***************************************************************************)
\* An absent optional field (nodeType?, symbol?).
Undefined == <<"undefined">>

\* text.replace(/\r\n/g, "\n")
RECURSIVE Normalize(_)
Normalize(text) ==
    IF Len(text) = 0 THEN <<>>
    ELSE IF Len(text) >= 2 /\ text[1] = "\r" /\ text[2] = "\n"
         THEN <<"\n">> \o Normalize(SubSeq(text, 3, Len(text)))
         ELSE <<text[1]>> \o Normalize(Tail(text))

\* normalized.split("\n"): always at least one (possibly empty) line.
RECURSIVE SplitFrom(_, _, _)
SplitFrom(text, i, cur) ==
    IF i > Len(text) THEN <<cur>>
    ELSE IF text[i] = "\n" THEN <<cur>> \o SplitFrom(text, i + 1, <<>>)
    ELSE SplitFrom(text, i + 1, Append(cur, text[i]))

SplitLines(text) == SplitFrom(text, 1, <<>>)

\* lines.join("\n")
RECURSIVE JoinLines(_)
JoinLines(ls) ==
    IF Len(ls) = 0 THEN <<>>
    ELSE IF Len(ls) = 1 THEN ls[1]
    ELSE ls[1] \o <<"\n">> \o JoinLines(Tail(ls))

RECURSIVE InnerLoopNoNewline(_, _, _, _, _)
InnerLoopNoNewline(ls, start, end, currentLength, chunkSize) ==
    IF ~(end < Len(ls)) THEN end
    ELSE LET addLength == Len(ls[end + 1])
         IN IF currentLength + addLength > chunkSize /\ end > start
            THEN end
            ELSE IF currentLength + addLength >= chunkSize
                 THEN end + 1
                 ELSE InnerLoopNoNewline(ls, start, end + 1, currentLength + addLength,
                                         chunkSize)

\* The inner while loop: indices are 0-based as in the code, lines[end] is ls[end + 1].
RECURSIVE InnerLoop(_, _, _, _, _)
InnerLoop(ls, start, end, currentLength, chunkSize) ==
    IF ~(end < Len(ls)) THEN end
    ELSE LET addLength == Len(ls[end + 1]) + (IF end > start THEN 1 ELSE 0)
         IN IF currentLength + addLength > chunkSize /\ end > start
            THEN end
            ELSE IF currentLength + addLength >= chunkSize
                 THEN end + 1
                 ELSE InnerLoop(ls, start, end + 1, currentLength + addLength, chunkSize)

\* The exclusive end index of the window that starts at start.
WindowEnd(ls, start, chunkSize) ==
    LET end == InnerLoop(ls, start, start, 0, chunkSize)
    IN IF end <= start THEN start + 1 ELSE end

EffectiveOverlapNoClamp(overlapLines, chunkLineCount) ==
    Min(overlapLines, Max(0, chunkLineCount))

\* Math.min(options.overlapLines, Math.max(0, chunkLineCount - 1))
EffectiveOverlap(overlapLines, chunkLineCount) ==
    Min(overlapLines, Max(0, chunkLineCount - 1))

TextChunk(ls, start, end) ==
    [startLine |-> start + 1,
     endLine |-> end,
     content |-> JoinLines(SubSeq(ls, start + 1, end)),
     nodeType |-> Undefined,
     symbol |-> Undefined,
     chunkingStrategy |-> "text"]

NextStart(start, end, overlapLines) ==
    end - EffectiveOverlap(overlapLines, end - start)

\* The outer while loop, from a given start.
RECURSIVE OuterLoop(_, _, _, _)
OuterLoop(ls, start, opts, acc) ==
    IF ~(start < Len(ls)) THEN acc
    ELSE LET end == WindowEnd(ls, start, opts.chunkSize)
             out == Append(acc, TextChunk(ls, start, end))
         IN IF end >= Len(ls) THEN out
            ELSE OuterLoop(ls, NextStart(start, end, opts.overlapLines), opts, out)

chunkTextByLines(text, opts) ==
    LET ls == SplitLines(Normalize(text))
    IN IF Len(ls) = 0 THEN <<>> ELSE OuterLoop(ls, 0, opts, <<>>)

(***************************************************************************)
(* Strings used by the chunker and the indexer                             *)
(***************************************************************************)
KindClass == <<"C", "l", "a", "s", "s", "D", "e", "c", "l", "a", "r", "a", "t", "i", "o", "n">>
KindMethod == <<"M", "e", "t", "h", "o", "d", "D", "e", "c", "l", "a", "r", "a", "t", "i", "o", "n">>
KindFunction == <<"F", "u", "n", "c", "t", "i", "o", "n", "D", "e", "c", "l", "a", "r", "a", "t", "i", "o", "n">>
KindInterface == <<"I", "n", "t", "e", "r", "f", "a", "c", "e", "D", "e", "c", "l", "a", "r", "a", "t", "i", "o", "n">>
KindEnum == <<"E", "n", "u", "m", "D", "e", "c", "l", "a", "r", "a", "t", "i", "o", "n">>
KindTypeAlias == <<"T", "y", "p", "e", "A", "l", "i", "a", "s", "D", "e", "c", "l", "a", "r", "a", "t", "i", "o", "n">>
KindConstructor == <<"C", "o", "n", "s", "t", "r", "u", "c", "t", "o", "r">>
KindVariable == <<"V", "a", "r", "i", "a", "b", "l", "e", "S", "t", "a", "t", "e", "m", "e", "n", "t">>
KindBlock == <<"B", "l", "o", "c", "k">>
KindSourceFile == <<"S", "o", "u", "r", "c", "e", "F", "i", "l", "e">>

\* A string literal as the sequence of its characters.
Str(s) == [i \in 1..Len(s) |-> SubSeq(s, i, i)]

\* String.prototype.indexOf(sub, from), 0-based; -1 when sub does not occur.
IndexOf(text, sub, from) ==
    LET at == {i \in from..(Len(text) - Len(sub)) : SubSeq(text, i + 1, i + Len(sub)) = sub}
    IN IF at = {} THEN 0 - 1 ELSE CHOOSE i \in at : \A j \in at : i <= j

StrAst == <<"a", "s", "t">>
StrText == <<"t", "e", "x", "t">>

\* The characters String.prototype.trim removes, among those the model uses.
WhiteSpace == {" ", "\n", "\r", "\t"}

RECURSIVE TrimStart(_)
TrimStart(s) ==
    IF Len(s) > 0 /\ s[1] \in WhiteSpace THEN TrimStart(Tail(s)) ELSE s

RECURSIVE TrimEnd(_)
TrimEnd(s) ==
    IF Len(s) > 0 /\ s[Len(s)] \in WhiteSpace
    THEN TrimEnd(SubSeq(s, 1, Len(s) - 1))
    ELSE s

\* String.prototype.trim
Trim(s) == TrimEnd(TrimStart(s))

\* slice(startPos, endPos) of a string or an array, positions 0-based,
\* endPos exclusive; a negative position counts from the end, and a position
\* past either end is the end.
Slice(s, startPos, endPos) ==
    LET from == IF startPos < 0 THEN Max(Len(s) + startPos, 0) ELSE Min(startPos, Len(s))
        to == IF endPos < 0 THEN Max(Len(s) + endPos, 0) ELSE Min(endPos, Len(s))
    IN SubSeq(s, from + 1, to)

\* Array.prototype.join(sep) on strings.
RECURSIVE JoinWith(_, _)
JoinWith(parts, sep) ==
    IF Len(parts) = 0 THEN <<>>
    ELSE IF Len(parts) = 1 THEN parts[1]
    ELSE parts[1] \o sep \o JoinWith(Tail(parts), sep)

DigitChars == <<"0", "1", "2", "3", "4", "5", "6", "7", "8", "9">>

\* The decimal text of a non-negative integer, as join() renders a number.
RECURSIVE ToDec(_)
ToDec(n) ==
    IF n < 10 THEN <<DigitChars[n + 1]>>
    ELSE ToDec(n \div 10) \o <<DigitChars[(n % 10) + 1]>>

\* The characters of s written one after the other, as one TLC string.
RECURSIVE Flatten(_)
Flatten(s) == IF Len(s) = 0 THEN "" ELSE s[1] \o Flatten(Tail(s))

\* hash.ts sha256: a hex digest. The digest is one block that stands for the
\* 64 hex characters: distinct inputs give distinct blocks, and a block is
\* never equal to ':' or to any other character.
sha256(s) == <<"sha256(" \o Flatten(s) \o ")">>

\* digest.slice(0, 20): the first 20 hex characters of a digest block.
Slice20(digest) == <<"first20(" \o digest[1] \o ")">>

\* The index of the last occurrence of c in s, 0 if there is none.
RECURSIVE LastIndexOf(_, _, _)
LastIndexOf(s, c, i) ==
    IF i = 0 THEN 0
    ELSE IF s[i] = c THEN i
    ELSE LastIndexOf(s, c, i - 1)

\* path.basename
BaseName(p) == SubSeq(p, LastIndexOf(p, "/", Len(p)) + 1, Len(p))

\* path.extname: from the last '.' of the base name, "" when there is none
\* or when the base name starts with its only '.'.
ExtName(p) ==
    LET b == BaseName(p)
        d == LastIndexOf(b, ".", Len(b))
    IN IF d <= 1 THEN <<>> ELSE SubSeq(b, d, Len(b))

UpperToLower ==
    [c \in {"A", "B", "C", "D", "E", "F", "I", "M", "S", "T", "V"} |->
        CASE c = "A" -> "a" [] c = "B" -> "b" [] c = "C" -> "c" [] c = "D" -> "d"
          [] c = "E" -> "e" [] c = "F" -> "f" [] c = "I" -> "i" [] c = "M" -> "m"
          [] c = "S" -> "s" [] c = "T" -> "t" [] c = "V" -> "v"]

\* String.prototype.toLowerCase on the characters the model uses.
ToLowerCase(s) ==
    [i \in 1..Len(s) |-> IF s[i] \in DOMAIN UpperToLower THEN UpperToLower[s[i]] ELSE s[i]]

\* scanner.ts detectLanguage
detectLanguage(filePath) ==
    LET ext == ToLowerCase(ExtName(filePath))
    IN IF Len(ext) = 0 THEN StrText ELSE Tail(ext)

AST_SUPPORTED_EXTENSIONS ==
    {<<".", "t", "s">>, <<".", "t", "s", "x">>, <<".", "j", "s">>, <<".", "j", "s", "x">>,
     <<".", "m", "t", "s">>, <<".", "c", "t", "s">>, <<".", "m", "j", "s">>, <<".", "c", "j", "s">>}

AST_SUPPORTED_LANGUAGES ==
    {<<"t", "s">>, <<"t", "s", "x">>, <<"j", "s">>, <<"j", "s", "x">>,
     <<"m", "t", "s">>, <<"c", "t", "s">>, <<"m", "j", "s">>, <<"c", "j", "s">>,
     <<"t", "y", "p", "e", "s", "c", "r", "i", "p", "t">>,
     <<"j", "a", "v", "a", "s", "c", "r", "i", "p", "t">>}

supportsTypeScriptAst(language, filePath) ==
    \/ ToLowerCase(ExtName(filePath)) \in AST_SUPPORTED_EXTENSIONS
    \/ ToLowerCase(language) \in AST_SUPPORTED_LANGUAGES

(***************************************************************************)
(* chunker.ts: structural chunking.  A parsed file is the list of its      *)
(* nodes in the order visit() reaches them, each with its kind, its        *)
(* getStart()/getEnd() positions and the texts of its declared names.      *)
(***************************************************************************)
ChunkableKinds ==
    {KindFunction, KindClass, KindInterface, KindEnum, KindTypeAlias,
     KindMethod, KindConstructor, KindVariable}

isChunkableAstNode(node) == node.kind \in ChunkableKinds

\* node.name.getText(), or the declared names joined by ", ".
namedNodeSymbol(node) ==
    IF Len(node.names) = 0 THEN Undefined ELSE JoinWith(node.names, <<",", " ">>)

\* ts.SyntaxKind[node.kind]: the name the enum's reverse mapping gives.
\* FirstStatement is declared after VariableStatement with the same value,
\* so it is the name the reverse mapping holds for a variable statement.
SyntaxKindName(kind) == IF kind = KindVariable THEN Str("FirstStatement") ELSE kind

\* getLineAndCharacterOfPosition(pos).line: the line breaks before pos.  A
\* line break of the TypeScript scanner is "\n", or "\r" that no "\n"
\* follows ("\r\n" is one break, counted at its "\n").
RECURSIVE LineOfPosition(_, _)
LineOfPosition(text, pos) ==
    IF pos <= 0 THEN 0
    ELSE (IF \/ text[pos] = "\n"
             \/ text[pos] = "\r" /\ ~(pos < Len(text) /\ text[pos + 1] = "\n")
          THEN 1 ELSE 0) + LineOfPosition(text, pos - 1)

splitLargeChunkUntranslated(content, startLine, nodeType, symbol, opts) ==
    LET parts == chunkTextByLines(content, opts)
    IN [i \in 1..Len(parts) |->
           [startLine |-> parts[i].startLine,
            endLine |-> parts[i].endLine,
            content |-> parts[i].content,
            nodeType |-> nodeType,
            symbol |-> symbol,
            chunkingStrategy |-> "ast"]]

splitLargeChunk(content, startLine, nodeType, symbol, opts) ==
    LET parts == chunkTextByLines(content, opts)
    IN [i \in 1..Len(parts) |->
           [startLine |-> startLine + parts[i].startLine - 1,
            endLine |-> startLine + parts[i].endLine - 1,
            content |-> parts[i].content,
            nodeType |-> nodeType,
            symbol |-> symbol,
            chunkingStrategy |-> "ast"]]

\* content.length > Math.max(options.chunkSize, 1) * 1.35, in integers.
IsLargeContent(content, chunkSize) == 20 * Len(content) > 27 * Max(chunkSize, 1)

\* The chunks addAstChunk pushes for one node.
addAstChunk(text, node, opts) ==
    LET content == Trim(Slice(text, node.start, node.end))
        startLine == LineOfPosition(text, node.start) + 1
        endLine == LineOfPosition(text, node.end) + 1
        nodeType == SyntaxKindName(node.kind)
        symbol == namedNodeSymbol(node)
    IN IF Len(content) = 0 THEN <<>>
       ELSE IF IsLargeContent(content, opts.chunkSize)
            THEN splitLargeChunk(content, startLine, nodeType, symbol, opts)
            ELSE <<[startLine |-> startLine,
                    endLine |-> endLine,
                    content |-> content,
                    nodeType |-> nodeType,
                    symbol |-> symbol,
                    chunkingStrategy |-> "ast"]>>

\* visit(sourceFile): every chunkable node, in visiting order.
RECURSIVE VisitNodes(_, _, _)
VisitNodes(text, nodes, opts) ==
    IF Len(nodes) = 0 THEN <<>>
    ELSE (IF isChunkableAstNode(nodes[1]) THEN addAstChunk(text, nodes[1], opts) ELSE <<>>)
         \o VisitNodes(text, Tail(nodes), opts)

ChunkPartLess(a, b) ==
    IF a.startLine = b.startLine THEN a.endLine < b.endLine ELSE a.startLine < b.startLine

\* chunks.sort of chunkTypeScriptAst (Array.prototype.sort is stable): an
\* element's place is the number of elements that sort before it.
SortChunkParts(s) ==
    LET rank(i) == 1 + Cardinality({j \in 1..Len(s) :
                        \/ ChunkPartLess(s[j], s[i])
                        \/ (~ChunkPartLess(s[i], s[j]) /\ j < i)})
    IN [k \in 1..Len(s) |-> s[CHOOSE i \in 1..Len(s) : rank(i) = k]]

chunkTypeScriptAstNoFallback(text, nodes, opts) ==
    SortChunkParts(VisitNodes(text, nodes, opts))

\* chunkTypeScriptAst, given the nodes ts.createSourceFile produced for text.
chunkTypeScriptAst(text, nodes, opts) ==
    LET chunks == VisitNodes(text, nodes, opts)
    IN IF Len(chunks) = 0 THEN chunkTextByLines(text, opts)
       ELSE SortChunkParts(chunks)

(***************************************************************************)
(* The repository contents the index build is run on.  Every file is text  *)
(* small enough to be scanned; a file version 0 means the file is absent.  *)
(***************************************************************************)
\* A method with a computed name, on one line: [a/**/+b]() {}
SymY == <<"[", "a", "/", "*", "*", "/", "+", "b", "]">>
MethodTail == <<"(", ")", " ", "{", "}">>
YMethod == SymY \o MethodTail

\* A method whose computed name holds a comment:
\* [q/*.ts:2:2:<sha256 of YMethod>:MethodDeclaration:[a/**/+b]() {}
SymX ==
    <<"[", "q", "/", "*", ".", "t", "s", ":", "2", ":", "2", ":">>
        \o sha256(YMethod) \o <<":">> \o KindMethod \o <<":">> \o SymY
XMethod == SymX \o MethodTail

ClassAOpen == <<"c", "l", "a", "s", "s", " ", "A", " ", "{">>
ClassBOpen == <<"c", "l", "a", "s", "s", " ", "B", " ", "{">>

XText == ClassAOpen \o <<"\n">> \o XMethod \o <<"\n", "}">>
YText == ClassBOpen \o <<"\n">> \o YMethod \o <<"\n", "}">>

NText1 == <<"a", "\n", "b">>
NText2 == <<"a", "\n", "b", "\n", "c">>

\* m.ts
PathX == <<"m", ".", "t", "s">>
\* m.ts:2:2:<sha256 of XMethod>:MethodDeclaration:[q/*.ts, the file *.ts of a directory
PathY ==
    PathX \o <<":", "2", ":", "2", ":">> \o sha256(XMethod) \o <<":">> \o KindMethod
        \o <<":", "[", "q", "/", "*", ".", "t", "s">>
\* n.md
PathN == <<"n", ".", "m", "d">>

\* The paths in the order of String.prototype.localeCompare.
PathsInOrder == <<PathX, PathY, PathN>>
Paths == {PathsInOrder[i] : i \in 1..Len(PathsInOrder)}
PathRank(p) == CHOOSE i \in 1..Len(PathsInOrder) : PathsInOrder[i] = p
localeCompareLess(a, b) == PathRank(a) < PathRank(b)

\* The versions of each file, 0 for an absent file.  The number of a
\* version stands for the time it was written at (the file's mtimeMs);
\* version 3 of n.md is the text of version 1 written again (the file
\* touched), version 2 that text with a line added.
Versions(p) == IF p = PathY THEN 0..1 ELSE IF p = PathX THEN 0..2 ELSE 0..3


(***************************************************************************)
(* Source texts chunkSourceCode is run on alone, and the files they are in. *)
(***************************************************************************)
SrcFunctionClass == Str("function f() {}\nclass A {\nm() {}\n}")
SrcStatements == Str("import 'x';\nf();")
SrcVariables == Str("const a = 1, b = 2;\nfunction g() {\nlet c = 3;\n}")
SrcTypes == Str("interface I {}\ntype T = I;\nenum E {}\nclass K {\nconstructor() {}\n}")
SrcCarriageReturns == Str("function h() {\rreturn 1;\r}")
SrcTwins == Str("var a; var a;")
SrcMixed == Str("import 'x';\n\nfunction k() {\nreturn 1;\n}\nk();")
FileText(p, v) ==
    IF p = PathX THEN (IF v = 1 THEN XText ELSE SrcTwins)
    ELSE IF p = PathY THEN YText
    ELSE IF v = 2 THEN NText2 ELSE NText1


SourceFiles ==
    {[path |-> Str("src/service.ts"), text |-> SrcFunctionClass],
     [path |-> Str("src/main.js"), text |-> SrcStatements],
     [path |-> Str("src/vars.ts"), text |-> SrcVariables],
     [path |-> Str("src/types.TS"), text |-> SrcTypes],
     [path |-> Str("src/old.ts"), text |-> SrcCarriageReturns],
     [path |-> Str("src/twins.ts"), text |-> SrcTwins],
     [path |-> Str("src/mixed.ts"), text |-> SrcMixed],
     [path |-> Str("main.py"), text |-> Str("def foo(x):\n    return x + 1\n")],
     [path |-> Str("notes"), text |-> SrcFunctionClass]}

\* The node whose text is the first occurrence of sub at or after from.
NodeOf(kind, text, sub, from, names) ==
    [kind |-> kind,
     start |-> IndexOf(text, sub, from),
     end |-> IndexOf(text, sub, from) + Len(sub),
     names |-> names]

\* ts.createSourceFile: the nodes of the parsed text, down to the statements
\* of the bodies, in the order visit() reaches them.
createSourceFile(text) ==
    LET root == [kind |-> KindSourceFile, start |-> 0, end |-> Len(text), names |-> <<>>]
        classNode(name) ==
            [kind |-> KindClass, start |-> 0, end |-> Len(text), names |-> <<name>>]
        methodNode(method, sym) ==
            [kind |-> KindMethod, start |-> Len(ClassAOpen) + 1,
             end |-> Len(ClassAOpen) + 1 + Len(method), names |-> <<sym>>]
        body(method) ==
            [kind |-> KindBlock, start |-> Len(ClassAOpen) + 1 + Len(method) - 2,
             end |-> Len(ClassAOpen) + 1 + Len(method), names |-> <<>>]
    IN IF text = XText
       THEN <<root, classNode(<<"A">>), methodNode(XMethod, SymX), body(XMethod)>>
       ELSE IF text = YText
       THEN <<root, classNode(<<"B">>), methodNode(YMethod, SymY), body(YMethod)>>
       ELSE IF text = SrcFunctionClass
       THEN <<root,
              NodeOf(KindFunction, text, Str("function f() {}"), 0, <<Str("f")>>),
              NodeOf(KindBlock, text, Str("{}"), 0, <<>>),
              NodeOf(KindClass, text, Str("class A {\nm() {}\n}"), 0, <<Str("A")>>),
              NodeOf(KindMethod, text, Str("m() {}"), 0, <<Str("m")>>),
              NodeOf(KindBlock, text, Str("{}"), 20, <<>>)>>
       ELSE IF text = SrcStatements
       THEN <<root,
              NodeOf(Str("ImportDeclaration"), text, Str("import 'x';"), 0, <<>>),
              NodeOf(Str("ExpressionStatement"), text, Str("f();"), 0, <<>>)>>
       ELSE IF text = SrcVariables
       THEN <<root,
              NodeOf(KindVariable, text, Str("const a = 1, b = 2;"), 0, <<Str("a"), Str("b")>>),
              NodeOf(KindFunction, text, Str("function g() {\nlet c = 3;\n}"), 0, <<Str("g")>>),
              NodeOf(KindBlock, text, Str("{\nlet c = 3;\n}"), 0, <<>>),
              NodeOf(KindVariable, text, Str("let c = 3;"), 0, <<Str("c")>>)>>
       ELSE IF text = SrcTypes
       THEN <<root,
              NodeOf(KindInterface, text, Str("interface I {}"), 0, <<Str("I")>>),
              NodeOf(KindTypeAlias, text, Str("type T = I;"), 0, <<Str("T")>>),
              NodeOf(KindEnum, text, Str("enum E {}"), 0, <<Str("E")>>),
              NodeOf(KindClass, text, Str("class K {\nconstructor() {}\n}"), 0, <<Str("K")>>),
              NodeOf(KindConstructor, text, Str("constructor() {}"), 0, <<>>),
              NodeOf(KindBlock, text, Str("{}"), 50, <<>>)>>
       ELSE IF text = SrcCarriageReturns
       THEN <<root,
              NodeOf(KindFunction, text, text, 0, <<Str("h")>>),
              NodeOf(KindBlock, text, Str("{\rreturn 1;\r}"), 0, <<>>)>>
       ELSE IF text = SrcTwins
       THEN <<root,
              NodeOf(KindVariable, text, Str("var a;"), 0, <<Str("a")>>),
              NodeOf(KindVariable, text, Str("var a;"), 1, <<Str("a")>>)>>
       ELSE IF text = SrcMixed
       THEN <<root,
              NodeOf(Str("ImportDeclaration"), text, Str("import 'x';"), 0, <<>>),
              NodeOf(KindFunction, text, Str("function k() {\nreturn 1;\n}"), 0, <<Str("k")>>),
              NodeOf(KindBlock, text, Str("{\nreturn 1;\n}"), 0, <<>>),
              NodeOf(Str("ReturnStatement"), text, Str("return 1;"), 0, <<>>),
              NodeOf(Str("ExpressionStatement"), text, Str("k();"), 0, <<>>)>>
       ELSE <<root>>

chunkSourceCode(text, filePath, language, mode, opts) ==
    IF mode = "ast" /\ supportsTypeScriptAst(language, filePath)
    THEN chunkTypeScriptAst(text, createSourceFile(text), opts)
    ELSE chunkTextByLines(text, opts)

(***************************************************************************)
(* indexer.ts: chunk identity                                              *)
(***************************************************************************)
OrEmpty(v) == IF v = Undefined THEN <<>> ELSE v

StrategyText(strategy) == IF strategy = "ast" THEN StrAst ELSE StrText

chunkKey(input) ==
    JoinWith(<<input.path, ToDec(input.startLine), ToDec(input.endLine),
               input.contentHash, OrEmpty(input.nodeType), OrEmpty(input.symbol),
               StrategyText(input.chunkingStrategy)>>, <<":">>)

createChunkId(input) == Slice20(sha256(chunkKey(input)))

\* The fields the identity of a chunk consists of.
IdentityFields(c) ==
    <<c.path, c.startLine, c.endLine, c.contentHash, OrEmpty(c.nodeType),
      OrEmpty(c.symbol), c.chunkingStrategy>>

(***************************************************************************)
(* store.ts: the persisted index                                           *)
(***************************************************************************)
NoManifest == [exists |-> FALSE]
NoTable == [exists |-> FALSE, rows |-> <<>>]

toOptionalString(v) ==
    IF v = Undefined THEN Undefined
    ELSE IF Len(Trim(v)) > 0 THEN Trim(v) ELSE Undefined

toChunkingStrategy(v) == IF v = "ast" THEN "ast" ELSE "text"

toChunkWithoutMtime(row) ==
    [id |-> row.id,
     path |-> row.path,
     language |-> row.language,
     startLine |-> row.startLine,
     endLine |-> row.endLine,
     content |-> row.content,
     nodeType |-> toOptionalString(row.nodeType),
     symbol |-> toOptionalString(row.symbol),
     chunkingStrategy |-> toChunkingStrategy(row.chunkingStrategy),
     contentHash |-> row.contentHash,
     fileMtimeMs |-> 0,
     fileSize |-> row.fileSize,
     embedding |-> row.embedding]

toChunk(row) ==
    [id |-> row.id,
     path |-> row.path,
     language |-> row.language,
     startLine |-> row.startLine,
     endLine |-> row.endLine,
     content |-> row.content,
     nodeType |-> toOptionalString(row.nodeType),
     symbol |-> toOptionalString(row.symbol),
     chunkingStrategy |-> toChunkingStrategy(row.chunkingStrategy),
     contentHash |-> row.contentHash,
     fileMtimeMs |-> row.fileMtimeMs,
     fileSize |-> row.fileSize,
     embedding |-> row.embedding]

loadAllChunks(tbl) ==
    IF ~tbl.exists THEN <<>> ELSE [i \in 1..Len(tbl.rows) |-> toChunk(tbl.rows[i])]

replaceChunks(tbl, chunkList) ==
    IF Len(chunkList) = 0 THEN NoTable ELSE [exists |-> TRUE, rows |-> chunkList]

(***************************************************************************)
(* vector.ts.  A number is a double: m * 2^e with a small integer m, or an *)
(* infinity, or NaN.  A product or sum at or above 2^1024 is an infinity,  *)
(* one below half the least positive double (2^-1074) is 0; rounding of    *)
(* the last bit is not modelled.                                           *)
(***************************************************************************)
LeastExponent == 0 - 1074
OverflowExponent == 1024

Abs(n) == IF n < 0 THEN 0 - n ELSE n

\* The number of binary digits of n >= 1.
RECURSIVE BitLen(_)
BitLen(n) == IF n < 2 THEN 1 ELSE 1 + BitLen(n \div 2)

RECURSIVE Pow2(_)
Pow2(n) == IF n <= 0 THEN 1 ELSE 2 * Pow2(n - 1)

Zero == [k |-> "fin", m |-> 0, e |-> 0]
Infinite(sign) == [k |-> "inf", m |-> sign, e |-> 0]
NaN == [k |-> "nan", m |-> 0, e |-> 0]

Sign(n) == IF n < 0 THEN 0 - 1 ELSE IF n > 0 THEN 1 ELSE 0

\* The double nearest to m * 2^e.
Fin(m, e) ==
    IF m = 0 THEN Zero
    ELSE IF e + BitLen(Abs(m)) > OverflowExponent THEN Infinite(Sign(m))
    ELSE IF e + BitLen(Abs(m)) <= LeastExponent - 1 THEN Zero
    ELSE [k |-> "fin", m |-> m, e |-> e]

\* x * y
Mul(x, y) ==
    IF x.k = "nan" \/ y.k = "nan" THEN NaN
    ELSE IF x.k = "inf" \/ y.k = "inf"
         THEN IF x.m = 0 \/ y.m = 0 THEN NaN ELSE Infinite(Sign(x.m) * Sign(y.m))
         ELSE Fin(x.m * y.m, x.e + y.e)

\* x + y; a term more than 84 binary places below the other is absorbed.
Add(x, y) ==
    IF x.k = "nan" \/ y.k = "nan" THEN NaN
    ELSE IF x.k = "inf" /\ y.k = "inf"
         THEN IF x.m = y.m THEN x ELSE NaN
    ELSE IF x.k = "inf" THEN x
    ELSE IF y.k = "inf" THEN y
    ELSE IF x.m = 0 THEN y
    ELSE IF y.m = 0 THEN x
    ELSE IF x.e - y.e >= 84 THEN x
    ELSE IF y.e - x.e >= 84 THEN y
    ELSE IF x.e >= y.e THEN Fin(x.m * Pow2(x.e - y.e) + y.m, y.e)
    ELSE Fin(x.m + y.m * Pow2(y.e - x.e), x.e)

\* The sums of the loop of cosineSimilarity over the elements from i on.
RECURSIVE SumProducts(_, _, _)
SumProducts(a, b, i) ==
    IF i > Len(a) THEN Zero
    ELSE Add(Mul(a[i], b[i]), SumProducts(a, b, i + 1))

\* The result is 0, NaN, or the quotient dot / (Math.sqrt(normA) *
\* Math.sqrt(normB)) kept as its three parts (all finite, none 0).
cosineSimilarity(a, b) ==
    LET zero == [kind |-> "zero", dot |-> Zero, normA |-> Zero, normB |-> Zero]
        nan == [kind |-> "nan", dot |-> Zero, normA |-> Zero, normB |-> Zero]
        dot == SumProducts(a, b, 1)
        normA == SumProducts(a, a, 1)
        normB == SumProducts(b, b, 1)
    IN IF Len(a) # Len(b) \/ Len(a) = 0 THEN zero
       ELSE IF normA = Zero \/ normB = Zero THEN zero
       ELSE IF dot.k = "nan" THEN nan
       ELSE IF normA.k = "inf" \/ normB.k = "inf"
            THEN IF dot.k = "inf" THEN nan ELSE zero
       ELSE IF dot.m = 0 THEN zero
       ELSE [kind |-> "ratio", dot |-> dot, normA |-> normA, normB |-> normB]

ScoreSign(x) == IF x.kind = "ratio" THEN Sign(x.dot.m) ELSE 0

\* |x|^2 < |y|^2 for two "ratio" scores: the value of a "ratio" is
\* dot / sqrt(normA * normB), compared through the squares.  The two sides
\* are compared as m * 2^e with |m| < 2^30: equal exponents by m, exponents
\* 32 or more apart by the exponent.
SquareLess(x, y) ==
    LET m1 == x.dot.m * x.dot.m * y.normA.m * y.normB.m
        e1 == 2 * x.dot.e + y.normA.e + y.normB.e
        m2 == y.dot.m * y.dot.m * x.normA.m * x.normB.m
        e2 == 2 * y.dot.e + x.normA.e + x.normB.e
    IN IF e1 = e2 THEN m1 < m2
       ELSE IF e1 - e2 >= 32 THEN m1 = 0 /\ m2 > 0
       ELSE IF e2 - e1 >= 32 THEN m2 > 0
       ELSE IF e1 > e2 THEN m1 * Pow2(e1 - e2) < m2
       ELSE m1 < m2 * Pow2(e2 - e1)

ScoreLess(x, y) ==
    IF ScoreSign(x) # ScoreSign(y) THEN ScoreSign(x) < ScoreSign(y)
    ELSE IF ScoreSign(x) = 0 THEN FALSE
    ELSE IF ScoreSign(x) > 0 THEN SquareLess(x, y)
    ELSE SquareLess(y, x)

\* results.sort((a, b) => b.score - a.score), stable: a comes before b when
\* the comparator is negative.
SortResults(s) ==
    LET before(a, b) == ScoreLess(b.score, a.score)
        rank(i) == 1 + Cardinality({j \in 1..Len(s) :
                        \/ before(s[j], s[i])
                        \/ (~before(s[i], s[j]) /\ j < i)})
    IN [k \in 1..Len(s) |-> s[CHOOSE i \in 1..Len(s) : rank(i) = k]]

\* The results sorted, then results.slice(0, topK): a negative topK counts
\* from the end.
retrieveTopK(chunkList, queryEmbedding, topK) ==
    LET results == SortResults([i \in 1..Len(chunkList) |->
                       [chunk |-> chunkList[i],
                        score |-> cosineSimilarity(queryEmbedding, chunkList[i].embedding)]])
    IN IF topK < 0 THEN SubSeq(results, 1, Max(Len(results) + topK, 0))
       ELSE SubSeq(results, 1, Min(topK, Len(results)))

(***************************************************************************)
(* State.  w*: a run of chunkTextByLines, one outer-loop iteration per     *)
(* step.  The rest: the repository, the persisted index and a run of       *)
(* buildIndex; startDisk, startTable, startManifest, prev, requests, hits, *)
(* parts, faults, builds, edits, writer (the options of the build that     *)
(* last replaced the collection), unread (the file the build could not     *)
(* read, and at which step) and fallbacks (the requests embedBatch sent to *)
(* /api/embeddings) record the history the properties need.                *)
(***************************************************************************)
VARIABLES wText, wOptions, wLines, wStart, wChunks, wPc

VARIABLES disk, table, manifest, pc, options, cache, files, pending, chunks,
          embeddings, batchStart, stats, outcome

VARIABLES startDisk, startTable, startManifest, prev, requests, hits, parts,
          faults, builds, edits, writer, unread, fallbacks

\* A run of cosineSimilarity (vA, vB, vScore) or of retrieveTopK alone.
VARIABLES vA, vB, vScore, rChunks, rQuery, rTopK, rResult, vPc

qvars == <<vA, vB, vScore, rChunks, rQuery, rTopK, rResult, vPc>>

\* A run of chunkSourceCode alone.
VARIABLES sFile, sLanguage, sMode, sOptions, sResult, sPc

svars == <<sFile, sLanguage, sMode, sOptions, sResult, sPc>>

wvars == <<wText, wOptions, wLines, wStart, wChunks, wPc>>

bvars == <<disk, table, manifest, pc, options, cache, files, pending, chunks,
           embeddings, batchStart, stats, outcome>>

hvars == <<startDisk, startTable, startManifest, prev, requests, hits, parts,
           faults, builds, edits, writer, unread, fallbacks>>

vars == <<wvars, svars, qvars, bvars, hvars>>

(***************************************************************************)
(* indexer.ts: buildIndex                                                  *)
(***************************************************************************)
ModelA == "nomic-embed-text-v2-moe:latest"
ModelB == "mxbai-embed-large"

BaseOptions ==
    [embeddingModel |-> ModelA, chunkingMode |-> "ast", chunkSize |-> DefaultChunkSize,
     overlapLines |-> DefaultOverlapLines, batchSize |-> DefaultBatchSize]

\* The options a build is started with: the defaults, or the defaults with
\* one option changed.
OptionChoices ==
    {BaseOptions,
     [BaseOptions EXCEPT !.embeddingModel = ModelB],
     [BaseOptions EXCEPT !.chunkingMode = "text"],
     [BaseOptions EXCEPT !.chunkSize = SmallChunkSize],
     [BaseOptions EXCEPT !.overlapLines = 0],
     [BaseOptions EXCEPT !.batchSize = SmallBatchSize]}

\* No file of the build was unreadable.
NoneUnread == [path |-> <<>>, step |-> "none"]

NoStats ==
    [filesScanned |-> 0, filesIndexed |-> 0, chunksTotal |-> 0,
     chunksEmbedded |-> 0, chunksReused |-> 0]

\* The vector the service computes for a text under a model, and a vector
\* it returns beyond those it was asked for.
Vec(model, text) == [model |-> model, input |-> text]
JunkVec(model) == [model |-> model, input |-> <<"unrequested">>]

CacheValidIgnoringModel(m, opts) ==
    /\ m.exists
    /\ m.chunkingMode = opts.chunkingMode
    /\ m.chunkSize = opts.chunkSize
    /\ m.overlapLines = opts.overlapLines

\* The condition under which the previous chunks are loaded into the cache.
CacheValid(m, opts) ==
    /\ m.exists
    /\ m.embeddingModel = opts.embeddingModel
    /\ m.chunkingMode = opts.chunkingMode
    /\ m.chunkSize = opts.chunkSize
    /\ m.overlapLines = opts.overlapLines

\* scanSourceFiles: the files present, sorted by relPath.
ScanFiles(d) == SelectSeq(PathsInOrder, LAMBDA p : d[p] # 0)

\* The IndexedChunkInput of every part of one file.
FileInputs(p, v, opts) ==
    LET content == FileText(p, v)
        language == detectLanguage(p)
        fileParts == chunkSourceCode(content, p, language, opts.chunkingMode,
                         [chunkSize |-> opts.chunkSize, overlapLines |-> opts.overlapLines])
    IN [i \in 1..Len(fileParts) |->
           [path |-> p,
            language |-> language,
            startLine |-> fileParts[i].startLine,
            endLine |-> fileParts[i].endLine,
            content |-> fileParts[i].content,
            nodeType |-> fileParts[i].nodeType,
            symbol |-> fileParts[i].symbol,
            chunkingStrategy |-> fileParts[i].chunkingStrategy,
            contentHash |-> sha256(fileParts[i].content),
            fileMtimeMs |-> v,
            fileSize |-> Len(content)]]

RECURSIVE AllInputs(_, _, _)
AllInputs(fileList, d, opts) ==
    IF Len(fileList) = 0 THEN <<>>
    ELSE FileInputs(fileList[1], d[fileList[1]], opts) \o AllInputs(Tail(fileList), d, opts)

\* Map.get after the cache.set calls in the order of the loaded chunks: the
\* last loaded chunk with the key.
CacheIndex(cached, key) == {i \in 1..Len(cached) : chunkKey(cached[i]) = key}
CacheHas(cached, key) == CacheIndex(cached, key) # {}
CacheGet(cached, key) ==
    cached[CHOOSE i \in CacheIndex(cached, key) : \A j \in CacheIndex(cached, key) : j <= i]

CountMismatchOnlyExcess(embs, pend) == Len(embs) > Len(pend)

\* embeddings.length !== pending.length
CountMismatch(embs, pend) == Len(embs) # Len(pend)

\* The loop that pairs pending[i] with embeddings[i]; an item without an
\* embedding is skipped.
MergeEmbedded(pend, embs) ==
    LET have == SelectSeq([i \in 1..Len(pend) |-> i], LAMBDA i : i <= Len(embs))
    IN [k \in 1..Len(have) |->
           [id |-> createChunkId(pend[have[k]]),
            path |-> pend[have[k]].path,
            language |-> pend[have[k]].language,
            startLine |-> pend[have[k]].startLine,
            endLine |-> pend[have[k]].endLine,
            content |-> pend[have[k]].content,
            nodeType |-> pend[have[k]].nodeType,
            symbol |-> pend[have[k]].symbol,
            chunkingStrategy |-> pend[have[k]].chunkingStrategy,
            contentHash |-> pend[have[k]].contentHash,
            fileMtimeMs |-> pend[have[k]].fileMtimeMs,
            fileSize |-> pend[have[k]].fileSize,
            embedding |-> embs[have[k]]]]

\* The comparator of chunks.sort: by path, then by startLine.
ChunkLess(a, b) ==
    IF a.path = b.path THEN a.startLine < b.startLine ELSE localeCompareLess(a.path, b.path)

\* chunks.sort of buildIndex (stable).
SortChunks(s) ==
    LET rank(i) == 1 + Cardinality({j \in 1..Len(s) :
                        \/ ChunkLess(s[j], s[i])
                        \/ (~ChunkLess(s[i], s[j]) /\ j < i)})
    IN [k \in 1..Len(s) |-> s[CHOOSE i \in 1..Len(s) : rank(i) = k]]

BuildInit ==
    /\ disk \in [Paths -> 0..1]
    /\ disk[PathN] = 1
    /\ table = NoTable
    /\ manifest = NoManifest
    /\ pc = "idle"
    /\ options = BaseOptions
    /\ cache = <<>>
    /\ files = <<>>
    /\ pending = <<>>
    /\ chunks = <<>>
    /\ embeddings = <<>>
    /\ batchStart = 0
    /\ stats = NoStats
    /\ outcome = "none"
    /\ startDisk = disk
    /\ startTable = NoTable
    /\ startManifest = NoManifest
    /\ prev = [outcome |-> "none", disk |-> disk, options |-> BaseOptions, unread |-> NoneUnread]
    /\ requests = <<>>
    /\ hits = <<>>
    /\ parts = <<>>
    /\ faults = 0
    /\ builds = 0
    /\ edits = 0
    /\ writer = BaseOptions
    /\ unread = NoneUnread
    /\ fallbacks = <<>>

\* No index build: the state of the build variables while chunkTextByLines is run alone.
BuildOff ==
    /\ disk = [p \in Paths |-> 0]
    /\ table = NoTable
    /\ manifest = NoManifest
    /\ pc = "off"
    /\ options = BaseOptions
    /\ cache = <<>>
    /\ files = <<>>
    /\ pending = <<>>
    /\ chunks = <<>>
    /\ embeddings = <<>>
    /\ batchStart = 0
    /\ stats = NoStats
    /\ outcome = "none"
    /\ startDisk = disk
    /\ startTable = NoTable
    /\ startManifest = NoManifest
    /\ prev = [outcome |-> "none", disk |-> disk, options |-> BaseOptions, unread |-> NoneUnread]
    /\ requests = <<>>
    /\ hits = <<>>
    /\ parts = <<>>
    /\ faults = 0
    /\ builds = 0
    /\ edits = 0
    /\ writer = BaseOptions
    /\ unread = NoneUnread
    /\ fallbacks = <<>>

\* No run of chunkTextByLines alone.
ChunkOff ==
    /\ wText = <<>>
    /\ wOptions = [chunkSize |-> DefaultChunkSize, overlapLines |-> DefaultOverlapLines]
    /\ wLines = <<>>
    /\ wStart = 0
    /\ wChunks = <<>>
    /\ wPc = "off"

\* No run of cosineSimilarity or retrieveTopK alone.
VectorOff ==
    /\ vA = <<>>
    /\ vB = <<>>
    /\ vScore = cosineSimilarity(<<>>, <<>>)
    /\ rChunks = <<>>
    /\ rQuery = <<>>
    /\ rTopK = 0
    /\ rResult = <<>>
    /\ vPc = "off"

\* No run of chunkSourceCode alone.
SourceOff ==
    /\ sFile = [path |-> <<>>, text |-> <<>>]
    /\ sLanguage = <<>>
    /\ sMode = "ast"
    /\ sOptions = [chunkSize |-> DefaultChunkSize, overlapLines |-> DefaultOverlapLines]
    /\ sResult = <<>>
    /\ sPc = "off"

\* A file is written, changed or deleted between two builds.
EditFile(p, v) ==
    /\ pc = "idle"
    /\ edits < MaxEdits
    /\ builds < MaxBuilds
    /\ v \in Versions(p)
    /\ disk[p] # v
    /\ disk' = [disk EXCEPT ![p] = v]
    /\ edits' = edits + 1
    /\ UNCHANGED <<wvars, svars, qvars, table, manifest, pc, options, cache, files, pending, chunks,
                   embeddings, batchStart, stats, outcome, startDisk, startTable,
                   startManifest, prev, requests, hits, parts, faults, builds,
                   writer, unread, fallbacks>>

\* What every start of buildIndex records.
BuildStarted(opts) ==
    /\ pc = "idle"
    /\ builds < MaxBuilds
    /\ cache' = IF CacheValid(manifest, opts) THEN loadAllChunks(table) ELSE <<>>
    /\ options' = opts
    /\ embeddings' = <<>>
    /\ batchStart' = 0
    /\ requests' = <<>>
    /\ fallbacks' = <<>>
    /\ stats' = NoStats
    /\ prev' = [outcome |-> outcome, disk |-> startDisk, options |-> options, unread |-> unread]
    /\ startDisk' = disk
    /\ startTable' = table
    /\ startManifest' = manifest
    /\ builds' = builds + 1

\* buildIndex up to the call of embedMany: load the manifest and the cache,
\* scan, read and chunk the files, resolve each part against the cache.
\* readFile fails for the file lost (<<>>: for none), which is skipped.
StartBuild(opts, lost) ==
    /\ BuildStarted(opts)
    /\ outcome' = "running"
    /\ lost # <<>> => (faults < MaxFaults /\ disk[lost] # 0)
    /\ faults' = IF lost = <<>> THEN faults ELSE faults + 1
    /\ unread' = IF lost = <<>> THEN NoneUnread ELSE [path |-> lost, step |-> "read"]
    /\ files' = ScanFiles(disk)
    /\ parts' = AllInputs(SelectSeq(files', LAMBDA p : p # lost), disk, opts)
    /\ \E keys \in {[i \in 1..Len(parts') |-> chunkKey(parts'[i])]} :
       \E hitIdx \in {SelectSeq([i \in 1..Len(keys) |-> i],
                                LAMBDA i : CacheHas(cache', keys[i]))} :
       \E missIdx \in {SelectSeq([i \in 1..Len(keys) |-> i],
                                 LAMBDA i : ~CacheHas(cache', keys[i]))} :
          /\ hits' = [k \in 1..Len(hitIdx) |->
                         [input |-> parts'[hitIdx[k]],
                          cached |-> CacheGet(cache', keys[hitIdx[k]])]]
          /\ chunks' = [k \in 1..Len(hits') |-> hits'[k].cached]
          /\ pending' = [k \in 1..Len(missIdx) |-> parts'[missIdx[k]]]
          /\ pc' = IF Len(missIdx) = 0 THEN "embedded" ELSE "embedding"
    /\ UNCHANGED <<wvars, svars, qvars, disk, table, manifest, edits, writer>>

\* buildIndex up to scanSourceFiles, which rejects: stat or the read of the
\* first bytes of the file p fails in walk, where nothing catches it.
ScanFails(opts, p) ==
    /\ BuildStarted(opts)
    /\ faults < MaxFaults
    /\ disk[p] # 0
    /\ faults' = faults + 1
    /\ unread' = [path |-> p, step |-> "scan"]
    /\ files' = <<>>
    /\ parts' = <<>>
    /\ hits' = <<>>
    /\ chunks' = <<>>
    /\ pending' = <<>>
    /\ pc' = "failed"
    /\ outcome' = "failed"
    /\ UNCHANGED <<wvars, svars, qvars, disk, table, manifest, edits, writer>>

BatchIgnoringSize == Slice(pending, batchStart, Len(pending))

\* inputs.slice(i, i + batchSize)
Batch == Slice(pending, batchStart, batchStart + options.batchSize)

\* The loop of embedMany is followed for MaxIdleCalls calls beyond one call
\* for each input.
CallsLeft == Len(requests) < Len(pending) + MaxIdleCalls

\* The first k vectors of a response to the current batch.
Response(k) ==
    [j \in 1..k |-> IF j <= Len(Batch) THEN Vec(options.embeddingModel, Batch[j].content)
                    ELSE JunkVec(options.embeddingModel)]

\* One iteration of embedMany in which embedBatch returns k vectors.
EmbedReturns(k) ==
    /\ CallsLeft
    /\ embeddings' = embeddings \o Response(k)
    /\ requests' = Append(requests, [j \in 1..Len(Batch) |-> Batch[j].content])
    /\ batchStart' = batchStart + options.batchSize
    /\ pc' = IF batchStart + options.batchSize < Len(pending) THEN "embedding" ELSE "embedded"
    /\ UNCHANGED <<wvars, svars, qvars, disk, table, manifest, options, cache, files, pending, chunks,
                   stats, outcome, startDisk, startTable, startManifest, prev, hits,
                   parts, builds, edits, writer, unread>>

\* /api/embed answers a batch with one vector per input.
EmbedBatchOk ==
    /\ pc = "embedding"
    /\ EmbedReturns(Len(Batch))
    /\ UNCHANGED <<faults, fallbacks>>

\* /api/embed answers a batch with fewer or more vectors than inputs.
EmbedBatchMiscount ==
    /\ pc = "embedding"
    /\ faults < MaxFaults
    /\ \E k \in {Len(Batch) - 1, Len(Batch) + 1} : k >= 0 /\ EmbedReturns(k)
    /\ faults' = faults + 1
    /\ UNCHANGED fallbacks

\* Whether embedBatch goes on to /api/embeddings after /api/embed: after an
\* error ("error": no connection, or a response that is not ok) when the
\* batch has one input, after an answer without an embeddings array
\* ("shape") always.
FallsBackIgnoringBatchLength(cause, batch) == cause \in {"error", "shape"}

FallsBack(cause, batch) == cause = "shape" \/ Len(batch) <= 1

\* The record of the requests for the first k inputs of the current batch
\* at /api/embeddings.
Fallback(cause, k, ok) ==
    [cause |-> cause, request |-> Len(requests) + 1,
     prompts |-> [j \in 1..k |-> Batch[j].content], ok |-> ok]

\* /api/embed gives no embeddings, and /api/embeddings answers every input
\* of the batch.
EmbedBatchFallback(cause) ==
    /\ pc = "embedding"
    /\ faults < MaxFaults
    /\ FallsBack(cause, Batch)
    /\ EmbedReturns(Len(Batch))
    /\ fallbacks' = Append(fallbacks, Fallback(cause, Len(Batch), TRUE))
    /\ faults' = faults + 1

\* embedBatch throws, which buildIndex does not catch: the error of
\* /api/embed, or the error of the k-th request at /api/embeddings.
EmbedBatchError(cause, k) ==
    /\ pc = "embedding"
    /\ CallsLeft
    /\ FallsBack(cause, Batch) => (1 <= k /\ k <= Len(Batch))
    /\ requests' = Append(requests, [j \in 1..Len(Batch) |-> Batch[j].content])
    /\ fallbacks' = IF FallsBack(cause, Batch)
                    THEN Append(fallbacks, Fallback(cause, k, FALSE))
                    ELSE fallbacks
    /\ pc' = "failed"
    /\ outcome' = "failed"
    /\ UNCHANGED <<wvars, svars, qvars, disk, table, manifest, options, cache, files, pending, chunks,
                   embeddings, batchStart, stats, startDisk, startTable, startManifest,
                   prev, hits, parts, faults, builds, edits, writer, unread>>

\* The count check throws.
CountCheckFails ==
    /\ pc = "embedded"
    /\ CountMismatch(embeddings, pending)
    /\ pc' = "failed"
    /\ outcome' = "failed"
    /\ UNCHANGED <<wvars, svars, qvars, disk, table, manifest, options, cache, files, pending, chunks,
                   embeddings, batchStart, stats, startDisk, startTable, startManifest,
                   prev, requests, hits, parts, faults, builds, edits, writer, unread, fallbacks>>

\* The count check passes: merge, sort, replaceChunks.
MergeAndReplace ==
    /\ pc = "embedded"
    /\ ~CountMismatch(embeddings, pending)
    /\ LET sorted == SortChunks(chunks \o MergeEmbedded(pending, embeddings))
       IN /\ chunks' = sorted
          /\ table' = replaceChunks(table, sorted)
    /\ writer' = options
    /\ pc' = "replaced"
    /\ UNCHANGED <<wvars, svars, qvars, disk, manifest, options, cache, files, pending, embeddings,
                   batchStart, stats, outcome, startDisk, startTable, startManifest,
                   prev, requests, hits, parts, faults, builds, edits, unread,
                   fallbacks>>

\* saveManifest, and the statistics buildIndex returns.
SaveManifest ==
    /\ pc = "replaced"
    /\ manifest' =
           [exists |-> TRUE,
            embeddingModel |-> options.embeddingModel,
            chunkingMode |-> options.chunkingMode,
            chunkSize |-> options.chunkSize,
            overlapLines |-> options.overlapLines,
            filesIndexed |-> Len(files),
            chunksIndexed |-> Len(chunks)]
    /\ stats' =
           [filesScanned |-> Len(files),
            filesIndexed |-> Len(files),
            chunksTotal |-> Len(chunks),
            chunksEmbedded |-> Len(pending),
            chunksReused |-> Len(chunks) - Len(pending)]
    /\ pc' = "done"
    /\ outcome' = "completed"
    /\ UNCHANGED <<wvars, svars, qvars, disk, table, options, cache, files, pending, chunks, embeddings,
                   batchStart, startDisk, startTable, startManifest, prev, requests,
                   hits, parts, faults, builds, edits, writer, unread, fallbacks>>

\* The process is stopped, or saveManifest throws, after replaceChunks.
Interrupt ==
    /\ pc = "replaced"
    /\ pc' = "interrupted"
    /\ outcome' = "interrupted"
    /\ UNCHANGED <<wvars, svars, qvars, disk, table, manifest, options, cache, files, pending, chunks,
                   embeddings, batchStart, stats, startDisk, startTable, startManifest,
                   prev, requests, hits, parts, faults, builds, edits, writer, unread, fallbacks>>

\* buildIndex has returned or thrown: its local state is gone.  What the
\* record prev of the next build is made from (options, startDisk, unread)
\* is kept for a completed build only, and prev itself is dropped.
Finish ==
    /\ pc \in {"done", "failed", "interrupted"}
    /\ pc' = "idle"
    /\ cache' = <<>>
    /\ files' = <<>>
    /\ pending' = <<>>
    /\ chunks' = <<>>
    /\ embeddings' = <<>>
    /\ batchStart' = 0
    /\ stats' = NoStats
    /\ requests' = <<>>
    /\ fallbacks' = <<>>
    /\ hits' = <<>>
    /\ parts' = <<>>
    /\ startTable' = table
    /\ startManifest' = manifest
    /\ options' = IF outcome = "completed" THEN options ELSE BaseOptions
    /\ startDisk' = IF outcome = "completed" THEN startDisk ELSE disk
    /\ unread' = IF outcome = "completed" THEN unread ELSE NoneUnread
    /\ prev' = [outcome |-> "none", disk |-> disk, options |-> BaseOptions, unread |-> NoneUnread]
    /\ UNCHANGED <<wvars, svars, qvars, disk, table, manifest, outcome,
                   faults, builds, edits, writer>>

Next ==
    \/ \E p \in Paths, v \in 0..3 : EditFile(p, v)
    \/ \E opts \in OptionChoices, lost \in {PathN, <<>>} : StartBuild(opts, lost)
    \/ \E opts \in OptionChoices : ScanFails(opts, PathN)
    \/ EmbedBatchOk
    \/ EmbedBatchMiscount
    \/ \E cause \in {"error", "shape"} : EmbedBatchFallback(cause)
    \/ \E cause \in {"error", "shape"}, k \in {1, Len(Batch)} : EmbedBatchError(cause, k)
    \/ CountCheckFails
    \/ MergeAndReplace
    \/ SaveManifest
    \/ Interrupt
    \/ Finish

Init == BuildInit /\ ChunkOff /\ SourceOff /\ VectorOff

Spec == Init /\ [][Next]_vars

(***************************************************************************)
(* A run of embedMany alone: buildIndex at its call of embedMany, in a     *)
(* first build of a repository with a batch size the index command takes.  *)
(***************************************************************************)
EmbedInit ==
    /\ disk \in {d \in [Paths -> 0..3] : \A p \in Paths : d[p] \in Versions(p)}
    /\ options \in {[BaseOptions EXCEPT !.batchSize = b] : b \in (0 - 2)..MaxBatchSize}
    /\ table = NoTable
    /\ manifest = NoManifest
    /\ cache = <<>>
    /\ files = ScanFiles(disk)
    /\ parts = AllInputs(files, disk, options)
    /\ pending = parts
    /\ hits = <<>>
    /\ chunks = <<>>
    /\ pc = IF Len(pending) = 0 THEN "embedded" ELSE "embedding"
    /\ embeddings = <<>>
    /\ batchStart = 0
    /\ stats = NoStats
    /\ outcome = "running"
    /\ startDisk = disk
    /\ startTable = NoTable
    /\ startManifest = NoManifest
    /\ prev = [outcome |-> "none", disk |-> disk, options |-> BaseOptions, unread |-> NoneUnread]
    /\ requests = <<>>
    /\ faults = 0
    /\ builds = 1
    /\ edits = 0
    /\ writer = BaseOptions
    /\ unread = NoneUnread
    /\ fallbacks = <<>>
    /\ ChunkOff
    /\ SourceOff
    /\ VectorOff

EmbedNext ==
    \/ EmbedBatchOk
    \/ EmbedBatchMiscount
    \/ \E cause \in {"error", "shape"} : EmbedBatchFallback(cause)
    \/ \E cause \in {"error", "shape"}, k \in {1, Len(Batch)} : EmbedBatchError(cause, k)

\* Every request is answered or fails: the loop of embedMany goes on.
SpecEmbed == EmbedInit /\ [][EmbedNext]_vars /\ WF_vars(EmbedNext)

(***************************************************************************)
(* A run of chunkTextByLines alone                                         *)
(***************************************************************************)
Chars == {"a", "\n", "\r"}

RECURSIVE TextsOfLen(_)
TextsOfLen(n) ==
    IF n = 0 THEN {<<>>}
    ELSE {Append(t, c) : t \in TextsOfLen(n - 1), c \in Chars}

Texts == UNION {TextsOfLen(n) : n \in 0..MaxTextLen}

\* --chunk-size and --overlap-lines accept any integer (cli.ts parseInteger).
ChunkSizes == (0 - 1)..MaxChunkSize
Overlaps == (0 - 1)..MaxOverlap

ChunkInit ==
    /\ wText \in Texts
    /\ wOptions \in [chunkSize : ChunkSizes, overlapLines : Overlaps]
    /\ wLines = SplitLines(Normalize(wText))
    /\ wStart = 0
    /\ wChunks = <<>>
    /\ wPc = "loop"
    /\ BuildOff
    /\ SourceOff
    /\ VectorOff

\* One iteration of the outer loop that emits a chunk and goes on.
ChunkStep ==
    /\ wPc = "loop"
    /\ wStart < Len(wLines)
    /\ LET end == WindowEnd(wLines, wStart, wOptions.chunkSize)
       IN /\ wChunks' = Append(wChunks, TextChunk(wLines, wStart, end))
          /\ end < Len(wLines)
          /\ wStart' = NextStart(wStart, end, wOptions.overlapLines)
    /\ UNCHANGED <<wText, wOptions, wLines, wPc, svars, qvars, bvars, hvars>>

\* The iteration whose chunk reaches the end of the input: break.
ChunkLast ==
    /\ wPc = "loop"
    /\ wStart < Len(wLines)
    /\ LET end == WindowEnd(wLines, wStart, wOptions.chunkSize)
       IN /\ wChunks' = Append(wChunks, TextChunk(wLines, wStart, end))
          /\ end >= Len(wLines)
    /\ wPc' = "done"
    /\ UNCHANGED <<wText, wOptions, wLines, wStart, svars, qvars, bvars, hvars>>

\* The loop condition start < lines.length fails: return.
ChunkExit ==
    /\ wPc = "loop"
    /\ ~(wStart < Len(wLines))
    /\ wPc' = "done"
    /\ UNCHANGED <<wText, wOptions, wLines, wStart, wChunks, svars, qvars, bvars, hvars>>

ChunkNext == ChunkStep \/ ChunkLast \/ ChunkExit

SpecChunk == ChunkInit /\ [][ChunkNext]_vars

(***************************************************************************)
(* A run of chunkSourceCode alone                                          *)
(***************************************************************************)
\* The language is the tag the indexer passes (detectLanguage), or a tag a
\* caller of chunkSourceCode gives.
SourceInit ==
    /\ sFile \in SourceFiles
    /\ sLanguage \in {detectLanguage(sFile.path), Str("TypeScript"), Str("py")}
    /\ sMode \in {"ast", "text"}
    /\ sOptions \in [chunkSize : {0 - 1, 0, 1, 8, 20, 500}, overlapLines : {0 - 1, 0, 1, 10}]
    /\ sResult = <<>>
    /\ sPc = "start"
    /\ BuildOff
    /\ ChunkOff
    /\ VectorOff

ChunkSource ==
    /\ sPc = "start"
    /\ sResult' = chunkSourceCode(sFile.text, sFile.path, sLanguage, sMode, sOptions)
    /\ sPc' = "done"
    /\ UNCHANGED <<sFile, sLanguage, sMode, sOptions, wvars, qvars, bvars, hvars>>

SpecSource == SourceInit /\ [][ChunkSource]_vars

(***************************************************************************)
(* A run of cosineSimilarity or of retrieveTopK alone                      *)
(***************************************************************************)
\* The vectors of up to MaxDim numbers m * 2^e, one e for the whole vector.
VectorsOfDim(d, e) ==
    {[i \in 1..d |-> Fin(ms[i], e)] : ms \in [1..d -> (0 - 1)..MaxMantissa]}
Vectors ==
    UNION {VectorsOfDim(d, e) : d \in 0..MaxDim, e \in {0 - LargeExponent, 0, LargeExponent}}

\* The lists of chunks retrieveTopK is run on, the id of a chunk its place
\* in the list.  The embeddings are of numbers of ordinary size, among them
\* parallel vectors, a zero vector and a shorter vector.
ChunkLists ==
    UNION {{[i \in 1..n |-> [id |-> i, embedding |-> es[i]]] :
                es \in [1..n -> {<<Fin(1, 0), Zero>>, <<Fin(2, 0), Zero>>,
                                  <<Zero, Fin(1, 0)>>, <<Fin(1, 0), Fin(1, 0)>>,
                                  <<Fin(0 - 1, 0), Zero>>, <<Zero, Zero>>, <<Fin(1, 0)>>}]} :
               n \in 0..MaxRetrieved}

VectorInit ==
    /\ \/ /\ vPc = "cosine"
          /\ vA \in Vectors
          /\ vB \in Vectors
          /\ rChunks = <<>>
          /\ rQuery = <<>>
          /\ rTopK = 0
       \/ /\ vPc = "retrieve"
          /\ vA = <<>>
          /\ vB = <<>>
          /\ rChunks \in ChunkLists
          /\ rQuery \in {<<Fin(1, 0), Zero>>, <<Fin(1, 0), Fin(2, 0)>>}
          /\ rTopK \in (0 - 2)..MaxTopK
    /\ vScore = cosineSimilarity(<<>>, <<>>)
    /\ rResult = <<>>
    /\ BuildOff
    /\ ChunkOff
    /\ SourceOff

Cosine ==
    /\ vPc = "cosine"
    /\ vScore' = cosineSimilarity(vA, vB)
    /\ vPc' = "compared"
    /\ UNCHANGED <<vA, vB, rChunks, rQuery, rTopK, rResult, wvars, svars, bvars, hvars>>

Retrieve ==
    /\ vPc = "retrieve"
    /\ rResult' = retrieveTopK(rChunks, rQuery, rTopK)
    /\ vPc' = "retrieved"
    /\ UNCHANGED <<vA, vB, vScore, rChunks, rQuery, rTopK, wvars, svars, bvars, hvars>>

SpecVector == VectorInit /\ [][Cosine \/ Retrieve]_vars

(***************************************************************************)
(* Properties of chunkTextByLines                                          *)
(***************************************************************************)
Covered(n) == \E i \in 1..Len(wChunks) :
                  wChunks[i].startLine <= n /\ n <= wChunks[i].endLine

\* C1: for every text, chunkSize and overlapLines the returned chunks are
\* non-empty, cover every line 1..N, start at line 1 and end at line N.
C1_CoversAllLines ==
    wPc = "done" =>
        /\ Len(wChunks) >= 1
        /\ \A n \in 1..Len(wLines) : Covered(n)
        /\ wChunks[1].startLine = 1
        /\ wChunks[Len(wChunks)].endLine = Len(wLines)

\* The run agrees with the function used by the index build.
StepwiseAgrees == wPc = "done" => wChunks = chunkTextByLines(wText, wOptions)

\* C9: chunkTextByLines terminates: every chunk starts strictly after the one
\* before it, the window start always moves forward, and at most N chunks are
\* emitted for N lines.
C9_StartStrictlyIncreases ==
    /\ \A i \in 1..(Len(wChunks) - 1) :
           wChunks[i + 1].startLine > wChunks[i].startLine
    /\ (wPc = "loop" /\ Len(wChunks) >= 1) =>
           wStart + 1 > wChunks[Len(wChunks)].startLine
    /\ Len(wChunks) <= Len(wLines)

\* C9 witness: overlapLines >= chunkSize, several chunks, run finished.
C9_Witness ==
    /\ wPc = "done"
    /\ wOptions.overlapLines >= wOptions.chunkSize
    /\ wOptions.overlapLines >= 2
    /\ Len(wChunks) >= 3

LineCount(c) == c.endLine - c.startLine + 1

SharedLines(c, d) ==
    Max(0, Min(c.endLine, d.endLine) - Max(c.startLine, d.startLine) + 1)

OneCharLines == \A i \in 1..Len(wLines) : Len(wLines[i]) = 1

\* C10: chunk i+1 starts exactly min(overlapLines, lineCount(i) - 1) lines
\* before the line after chunk i's endLine, the two share at most that many
\* lines, and N >= 2 one-character lines with chunkSize 3 and overlapLines 1
\* give N-1 chunks, chunk k spanning lines k..k+1.
C10_OverlapExact ==
    /\ \A i \in 1..(Len(wChunks) - 1) :
           LET m == Min(wOptions.overlapLines, LineCount(wChunks[i]) - 1)
           IN /\ wChunks[i + 1].startLine = wChunks[i].endLine + 1 - m
              /\ SharedLines(wChunks[i], wChunks[i + 1]) <= m
    /\ (/\ wPc = "done"
        /\ wOptions.chunkSize = 3
        /\ wOptions.overlapLines = 1
        /\ Len(wLines) >= 2
        /\ OneCharLines) =>
           /\ Len(wChunks) = Len(wLines) - 1
           /\ \A k \in 1..Len(wChunks) :
                  wChunks[k].startLine = k /\ wChunks[k].endLine = k + 1

(***************************************************************************)
(* Properties of buildIndex                                                *)
(***************************************************************************)
\* The manifest fields the cache validity depends on agree.
SameConfig(a, b) ==
    /\ a.embeddingModel = b.embeddingModel
    /\ a.chunkingMode = b.chunkingMode
    /\ a.chunkSize = b.chunkSize
    /\ a.overlapLines = b.overlapLines

RECURSIVE Concat(_)
Concat(seqs) == IF Len(seqs) = 0 THEN <<>> ELSE Head(seqs) \o Concat(Tail(seqs))

Contents(inputs) == [i \in 1..Len(inputs) |-> inputs[i].content]

\* What a persisted record says about the chunk it stands for.
RecordOf(c) == <<IdentityFields(c), c.content, c.language>>

\* C2: a build that follows a completed build over the same files, all read
\* by both, with the same embedding model, chunking mode, chunk size and
\* overlap finds every chunk in the cache, embeds nothing, sends no
\* embedding request and persists the records of the first build.
C2_IdenticalRebuildReusesAll ==
    (/\ pc = "done"
     /\ prev.outcome = "completed"
     /\ prev.disk = startDisk
     /\ prev.unread = NoneUnread
     /\ unread = NoneUnread
     /\ SameConfig(prev.options, options))
    => /\ Len(hits) = Len(parts)
       /\ stats.chunksEmbedded = 0
       /\ requests = <<>>
       /\ table = startTable

\* C3: a build that starts without a manifest, or with a manifest that
\* differs from its options in embedding model, chunking mode, chunk size
\* or overlap lines, uses no previous record: no chunk is a cache hit, every
\* part is pending, the requests carry the content of every part, and the
\* completed build reports chunksReused = 0.
C3_NoReuseWithoutMatchingManifest ==
    (/\ pc \in {"embedding", "embedded", "replaced", "done", "failed", "interrupted"}
     /\ (~startManifest.exists \/ ~SameConfig(startManifest, options)))
    => /\ hits = <<>>
       /\ pending = parts
       /\ (pc \in {"embedding", "embedded"} => chunks = <<>>)
       /\ (pc \in {"embedded", "replaced", "done"} => Concat(requests) = Contents(parts))
       /\ (pc = "done" => stats.chunksReused = 0 /\ stats.chunksEmbedded = Len(parts))

\* A build over an index written under another embedding model has embedded
\* every part anew.
C3_Witness ==
    /\ pc = "done"
    /\ startManifest.exists
    /\ startTable.exists
    /\ startManifest.embeddingModel # options.embeddingModel
    /\ Len(parts) > 0
    /\ stats.chunksEmbedded = Len(parts)

\* C4: a part is served from the cache only by a record that equals it in
\* every identity field, and two parts or records that differ in an identity
\* field have different keys.
C4_HitOnlyOnExactMatch ==
    /\ \A k \in 1..Len(hits) :
           IdentityFields(hits[k].input) = IdentityFields(hits[k].cached)
    /\ \A i, j \in 1..Len(parts) :
           chunkKey(parts[i]) = chunkKey(parts[j])
               => IdentityFields(parts[i]) = IdentityFields(parts[j])

\* C5: a build that got past the embedding has paired every pending chunk
\* with the vector of its own content.
C5_NoMisalignedPairing ==
    pc \in {"replaced", "done"}
    => \A i \in 1..Len(pending) :
           /\ i <= Len(embeddings)
           /\ embeddings[i] = Vec(options.embeddingModel, pending[i].content)

\* C6: when the build has failed, or the embedding has ended with a number
\* of vectors other than the number of pending chunks, the collection and
\* the manifest are those the build started with.
C6_FailedBuildPersistsNothing ==
    (\/ pc = "failed"
     \/ /\ pc \in {"embedded", "replaced", "done", "interrupted"}
        /\ Len(embeddings) # Len(pending))
    => /\ table = startTable
       /\ manifest = startManifest

\* A build over an existing index has failed on the count of the vectors.
C6_Witness ==
    /\ pc = "failed"
    /\ startTable.exists
    /\ startManifest.exists
    /\ Len(requests) > 0
    /\ Len(embeddings) # Len(pending)
    /\ table = startTable

\* C7: between builds, a collection that exists comes with a manifest whose
\* embedding model and chunking parameters are those of the build that
\* wrote the collection, and every record carries a vector of that model.
C7_CollectionMatchesManifest ==
    (pc = "idle" /\ table.exists)
    => /\ manifest.exists
       /\ SameConfig(manifest, writer)
       /\ \A i \in 1..Len(table.rows) :
              table.rows[i].embedding.model = manifest.embeddingModel

\* C8: after a completed build the collection holds one record for each
\* part of the files scanned and no other record; without parts there is no
\* collection.
C8_CollectionIsLatestScan ==
    pc = "done"
    => /\ table.exists <=> Len(parts) > 0
       /\ Len(table.rows) = Len(parts)
       /\ \A i \in 1..Len(parts) :
              \E k \in 1..Len(table.rows) : RecordOf(table.rows[k]) = RecordOf(parts[i])
       /\ \A k \in 1..Len(table.rows) :
              \E i \in 1..Len(parts) : RecordOf(table.rows[k]) = RecordOf(parts[i])

\* C16: a build in which a file could not be read, at its discovery or at
\* the read of its content, does not fail for it, and when it completes the
\* collection has no record of that file and has records of every other
\* file scanned.
C16_UnreadableFileIsSkipped ==
    unread.step # "none"
    => /\ (pc = "failed" => Len(requests) > 0)
       /\ (pc = "done"
              => /\ \A k \in 1..Len(table.rows) : table.rows[k].path # unread.path
                 /\ \A i \in 1..Len(files) :
                        files[i] # unread.path
                            => \E k \in 1..Len(table.rows) : table.rows[k].path = files[i])

\* The build has failed in embedBatch for the current batch.
FailedInEmbedBatch == pc = "failed" /\ Len(requests) > 0 /\ batchStart < Len(pending)

\* The fallbacks of the r-th request at /api/embed.
FallbacksOf(r) == {i \in 1..Len(fallbacks) : fallbacks[i].request = r}

\* C17: no request at /api/embeddings follows an error of /api/embed.
C17_NoRequestAfterError ==
    \A i \in 1..Len(fallbacks) : fallbacks[i].cause # "error"

\* C17, as the client behaves: an error of /api/embed for a batch of two or
\* more inputs fails the build with no further request; for a batch of one
\* input one request for that input follows at /api/embeddings, and the
\* build fails when that request fails.
C17_ErrorFailsOrFallsBackOnce ==
    /\ \A i \in 1..Len(fallbacks) :
           fallbacks[i].cause = "error"
               => /\ Len(requests[fallbacks[i].request]) = 1
                  /\ fallbacks[i].prompts = requests[fallbacks[i].request]
                  /\ Cardinality(FallbacksOf(fallbacks[i].request)) = 1
                  /\ (~fallbacks[i].ok => FailedInEmbedBatch)
    /\ (FailedInEmbedBatch /\ Len(requests[Len(requests)]) > 1
            /\ \A i \in FallbacksOf(Len(requests)) : fallbacks[i].cause # "shape")
           => FallbacksOf(Len(requests)) = {}

\* A build has completed although /api/embed failed for a batch of one
\* input: /api/embeddings gave the vector.
C17_Witness ==
    /\ pc = "done"
    /\ \E i \in 1..Len(fallbacks) :
           /\ fallbacks[i].cause = "error"
           /\ fallbacks[i].ok
           /\ Len(embeddings) = Len(pending)

\* C20: in the collection a build has persisted no two records have the
\* same id, and the id of each record is the truncated digest of the key of
\* the record.
C20_IdsArePrimaryKey ==
    pc \in {"replaced", "done"}
    => /\ \A i, j \in 1..Len(table.rows) :
              table.rows[i].id = table.rows[j].id => i = j
       /\ \A i \in 1..Len(table.rows) :
              table.rows[i].id = createChunkId(table.rows[i])

\* What holds of embedMany(model, Contents(pending), batchSize) at every
\* step: the requests are the inputs in order in batches of 1..batchSize
\* texts; when it has returned it has sent ceil(n / batchSize) requests for
\* all the inputs and, each request answered with the vectors of its texts,
\* returns the vectors of the inputs in order; without inputs it returns []
\* and sends nothing; with batchSize <= 0 and an input it has not returned,
\* its index below the number of inputs.
EmbedManySteps ==
    /\ options.batchSize >= 1
           => /\ \A r \in 1..Len(requests) :
                     Len(requests[r]) >= 1 /\ Len(requests[r]) <= options.batchSize
              /\ Len(Concat(requests)) <= Len(pending)
              /\ Concat(requests) = SubSeq(Contents(pending), 1, Len(Concat(requests)))
              /\ pc = "embedded"
                     => /\ Concat(requests) = Contents(pending)
                        /\ Len(requests) =
                               (Len(pending) + options.batchSize - 1) \div options.batchSize
                        /\ faults = 0
                               => embeddings =
                                      [i \in 1..Len(pending) |->
                                          Vec(options.embeddingModel, pending[i].content)]
    /\ Len(pending) = 0 => (pc = "embedded" /\ requests = <<>> /\ embeddings = <<>>)
    /\ (options.batchSize <= 0 /\ Len(pending) > 0)
           => (pc # "embedded" /\ batchStart < Len(pending) /\ batchStart <= 0)

\* C23: embedMany sends the inputs in order in batches of at most batchSize
\* and returns the batch results in that order after ceil(n / batchSize)
\* calls when batchSize >= 1, returns [] without a call for no input, and
\* with batchSize <= 0 and an input never returns.
C23_BatchesInOrderOrNoReturn ==
    /\ []EmbedManySteps
    /\ [](options.batchSize >= 1 => <>(pc \in {"embedded", "failed"}))

\* embedMany with a negative batch size still loops, its index below 0,
\* after a call for every input and MaxIdleCalls more.
C23_Witness ==
    /\ pc = "embedding"
    /\ options.batchSize < 0
    /\ Len(pending) >= 2
    /\ batchStart < 0
    /\ Len(requests) = Len(pending) + MaxIdleCalls
    /\ Len(requests[1]) >= 1

\* C21: the record persisted for a chunk served from the cache is a record
\* of the collection the build started with, whole: its id, embedding,
\* language, fileMtimeMs and fileSize are those stored by the earlier build,
\* whatever the scan of this build found for the file.
C21_ReusedRecordCarriedOver ==
    pc \in {"replaced", "done"}
    => \A k \in 1..Len(hits) :
           /\ \E j \in 1..Len(startTable.rows) : startTable.rows[j] = hits[k].cached
           /\ \E i \in 1..Len(table.rows) : table.rows[i] = hits[k].cached
           /\ Cardinality({i \in 1..Len(table.rows) :
                              chunkKey(table.rows[i]) = chunkKey(hits[k].input)})
                  = Cardinality({i \in 1..Len(parts) :
                                    chunkKey(parts[i]) = chunkKey(hits[k].input)})
           /\ \A i \in 1..Len(table.rows) :
                  chunkKey(table.rows[i]) = chunkKey(hits[k].input)
                      => table.rows[i] = hits[k].cached

\* After lines were added to n.md a build has reused a chunk of the file and
\* embedded another: the reused record has the fileMtimeMs and fileSize of
\* the earlier build, the fresh record those of the file as it is.
C21_Witness ==
    /\ pc = "done"
    /\ \E k \in 1..Len(hits), i, j \in 1..Len(table.rows) :
           /\ hits[k].input.path = PathN
           /\ table.rows[i] = hits[k].cached
           /\ table.rows[i].path = PathN
           /\ table.rows[i].fileMtimeMs # hits[k].input.fileMtimeMs
           /\ table.rows[i].fileSize # hits[k].input.fileSize
           /\ table.rows[j].path = PathN
           /\ table.rows[j].fileMtimeMs = hits[k].input.fileMtimeMs
           /\ table.rows[j].fileSize = hits[k].input.fileSize
           /\ table.rows[j].fileSize = Len(FileText(PathN, disk[PathN]))

(***************************************************************************)
(* Properties of the chunkers                                              *)
(***************************************************************************)
\* C11: every chunk emitted is the longest run of lines from its start that
\* fits chunkSize characters, a newline counted for every joined line: a
\* chunk of two or more lines is at most chunkSize long, a chunk longer than
\* chunkSize is one line, and a chunk that ends before the last line would
\* exceed chunkSize with the next line appended.
C11_LongestRunThatFits ==
    \A i \in 1..Len(wChunks) :
        LET c == wChunks[i]
        IN /\ c.content = JoinLines(SubSeq(wLines, c.startLine, c.endLine))
           /\ (LineCount(c) >= 2 => Len(c.content) <= wOptions.chunkSize)
           /\ (Len(c.content) > wOptions.chunkSize => LineCount(c) = 1)
           /\ (c.endLine < Len(wLines)
                  => Len(c.content) + 1 + Len(wLines[c.endLine + 1]) > wOptions.chunkSize)

\* A finished run with a chunk of several lines that stops before the last
\* line, and a chunk that is one line longer than chunkSize.
C11_Witness ==
    /\ wPc = "done"
    /\ \E i \in 1..Len(wChunks) :
           /\ LineCount(wChunks[i]) >= 2
           /\ wChunks[i].endLine < Len(wLines)
           /\ Len(wChunks[i].content) = wOptions.chunkSize
    /\ \E i \in 1..Len(wChunks) : Len(wChunks[i].content) > wOptions.chunkSize

\* The nodes of the text sFile holds, and those of a chunkable kind.
SourceNodes == createSourceFile(sFile.text)
ChunkableNodes == {i \in 1..Len(SourceNodes) : SourceNodes[i].kind \in ChunkableKinds}

\* The extension or the language tag is one of the JS/TS set, in any case of letters.
InSupportedSet ==
    \/ ToLowerCase(ExtName(sFile.path)) \in AST_SUPPORTED_EXTENSIONS
    \/ ToLowerCase(sLanguage) \in AST_SUPPORTED_LANGUAGES

Structural == sMode = "ast" /\ InSupportedSet /\ ChunkableNodes # {}

\* C12: in text mode, for a file whose extension and language tag are both
\* outside the JS/TS set, and for a parsed file without a chunkable node,
\* chunkSourceCode returns the chunks of chunkTextByLines for the same text
\* and options, each tagged "text" and without nodeType and symbol.
C12_FallsBackToWindowed ==
    (sPc = "done" /\ (sMode = "text" \/ ~InSupportedSet \/ ChunkableNodes = {}))
    => /\ sResult = chunkTextByLines(sFile.text, sOptions)
       /\ Len(sResult) >= 1
       /\ \A i \in 1..Len(sResult) :
              /\ sResult[i].chunkingStrategy = "text"
              /\ sResult[i].nodeType = Undefined
              /\ sResult[i].symbol = Undefined

\* A supported file of statements only, chunked in ast mode.
C12_Witness ==
    /\ sPc = "done"
    /\ sMode = "ast"
    /\ InSupportedSet
    /\ ChunkableNodes = {}
    /\ Len(SourceNodes) > 1
    /\ Len(sResult) >= 1

\* C13: in ast mode on a supported file with a chunkable node, every node of
\* a chunkable kind has a chunk whose nodeType is the kind of the node,
\* every chunk is tagged "ast", and the file of one function and one class
\* gives at least two chunks, one of them a FunctionDeclaration.
C13_EveryChunkableNodeHasItsChunk ==
    (sPc = "done" /\ Structural)
    => /\ \A n \in ChunkableNodes :
              \E i \in 1..Len(sResult) : sResult[i].nodeType = SourceNodes[n].kind
       /\ \A i \in 1..Len(sResult) : sResult[i].chunkingStrategy = "ast"
       /\ (sFile.text = SrcFunctionClass
              => /\ Len(sResult) >= 2
                 /\ \E i \in 1..Len(sResult) : sResult[i].nodeType = KindFunction)

\* The trimmed text and the lines of a node, as addAstChunk reads them.
NodeContent(node) == Trim(Slice(sFile.text, node.start, node.end))
NodeStartLine(node) == LineOfPosition(sFile.text, node.start) + 1
NodeEndLine(node) == LineOfPosition(sFile.text, node.end) + 1

\* C18: a chunkable node whose trimmed content is at most chunkSize x 1.35
\* long is emitted as one chunk over its own lines; a longer one is emitted
\* as the windowed chunks of its content, tagged "ast" with the nodeType and
\* symbol of the node, at the lines nodeStartLine + relativeLine - 1, which
\* together cover the lines of the node and none outside.
C18_NodeChunkOrTranslatedParts ==
    (sPc = "done" /\ Structural)
    => \A n \in ChunkableNodes :
           LET node == SourceNodes[n]
               content == NodeContent(node)
               first == NodeStartLine(node)
               last == NodeEndLine(node)
               out == addAstChunk(sFile.text, node, sOptions)
               windowed == chunkTextByLines(content, sOptions)
           IN /\ \A k \in 1..Len(out) : \E i \in 1..Len(sResult) : sResult[i] = out[k]
              /\ \A k \in 1..Len(out) :
                     /\ out[k].chunkingStrategy = "ast"
                     /\ out[k].nodeType = SyntaxKindName(node.kind)
                     /\ out[k].symbol = namedNodeSymbol(node)
              /\ IF 20 * Len(content) <= 27 * sOptions.chunkSize
                 THEN /\ Len(out) = 1
                      /\ out[1].startLine = first
                      /\ out[1].endLine = last
                      /\ out[1].content = content
                 ELSE /\ Len(out) = Len(windowed)
                      /\ \A k \in 1..Len(out) :
                             /\ out[k].content = windowed[k].content
                             /\ out[k].startLine = first + windowed[k].startLine - 1
                             /\ out[k].endLine = first + windowed[k].endLine - 1
                             /\ first <= out[k].startLine
                             /\ out[k].endLine <= last
                      /\ \A line \in first..last :
                             \E k \in 1..Len(out) :
                                 out[k].startLine <= line /\ line <= out[k].endLine

\* Two nodes, one inside the other.
Inside(inner, outer) ==
    /\ inner # outer
    /\ outer.start <= inner.start
    /\ inner.end <= outer.end

\* The variable statements inside a function, method, constructor or block.
NestedVariableNodes ==
    {n \in ChunkableNodes :
        /\ SourceNodes[n].kind = KindVariable
        /\ \E m \in 1..Len(SourceNodes) :
               /\ SourceNodes[m].kind \in {KindFunction, KindMethod, KindConstructor, KindBlock}
               /\ Inside(SourceNodes[n], SourceNodes[m])}

\* C19: no chunk of the result is the chunk of a variable statement that is
\* nested in a function, method, constructor or block body.
C19_OnlyTopLevelVariables ==
    (sPc = "done" /\ Structural)
    => \A n \in NestedVariableNodes :
           ~\E i \in 1..Len(sResult) :
                /\ sResult[i].nodeType = SyntaxKindName(KindVariable)
                /\ sResult[i].symbol = namedNodeSymbol(SourceNodes[n])
                /\ NodeStartLine(SourceNodes[n]) <= sResult[i].startLine
                /\ sResult[i].endLine <= NodeEndLine(SourceNodes[n])

\* The lines of sFile.text that no node of a chunkable kind reaches.
LinesOutsideNodes ==
    {l \in 1..(LineOfPosition(sFile.text, Len(sFile.text)) + 1) :
        \A n \in ChunkableNodes :
            l < NodeStartLine(SourceNodes[n]) \/ l > NodeEndLine(SourceNodes[n])}

\* C22: in ast mode on a supported file with a chunkable node, the lines of
\* every chunk lie within the lines of one node of a chunkable kind, and a
\* line that no such node reaches is in no chunk.
C22_ChunksLieInsideNodes ==
    (sPc = "done" /\ Structural)
    => /\ \A i \in 1..Len(sResult) :
              /\ sResult[i].startLine <= sResult[i].endLine
              /\ \E n \in ChunkableNodes :
                     /\ NodeStartLine(SourceNodes[n]) <= sResult[i].startLine
                     /\ sResult[i].endLine <= NodeEndLine(SourceNodes[n])
       /\ \A l \in LinesOutsideNodes :
              \A i \in 1..Len(sResult) : l < sResult[i].startLine \/ l > sResult[i].endLine

\* A function between an import and a call is chunked in parts, and the
\* lines of the import and of the call are in no chunk.
C22_Witness ==
    /\ sPc = "done"
    /\ Structural
    /\ Len(sResult) >= 2
    /\ LinesOutsideNodes # {}
    /\ \E l \in LinesOutsideNodes, i \in 1..Len(sResult) : l < sResult[i].startLine
    /\ \E l \in LinesOutsideNodes, i \in 1..Len(sResult) : l > sResult[i].endLine

(***************************************************************************)
(* Properties of vector.ts                                                 *)
(***************************************************************************)
\* The score retrieveTopK gives chunk c, and "c comes before d" in the
\* descending order that keeps ties in the order of rChunks.
ScoreOf(c) == cosineSimilarity(rQuery, c.embedding)
ComesBefore(c, d) ==
    \/ ScoreLess(ScoreOf(d), ScoreOf(c))
    \/ (~ScoreLess(ScoreOf(c), ScoreOf(d)) /\ c.id < d.id)

\* C14: retrieveTopK returns the first min(topK, |chunks|) chunks (none for
\* topK <= 0) of the chunks in descending order of score, ties in original
\* order, each with its score; never more than topK, none for no chunks.
C14_TopKOfDescendingOrder ==
    vPc = "retrieved"
    => /\ Len(rResult) = Max(0, Min(rTopK, Len(rChunks)))
       /\ Len(rResult) <= Max(rTopK, 0)
       /\ (Len(rChunks) = 0 => rResult = <<>>)
       /\ \A i \in 1..Len(rResult) :
              /\ rResult[i].chunk \in {rChunks[k] : k \in 1..Len(rChunks)}
              /\ rResult[i].score = ScoreOf(rResult[i].chunk)
       /\ \A i, j \in 1..Len(rResult) :
              i < j => ComesBefore(rResult[i].chunk, rResult[j].chunk)
       /\ \A i \in 1..Len(rResult), k \in 1..Len(rChunks) :
              (\A j \in 1..Len(rResult) : rResult[j].chunk # rChunks[k])
                  => ComesBefore(rResult[i].chunk, rChunks[k])

IsZeroVector(v) == \A i \in 1..Len(v) : v[i] = Zero

\* The sum of the products of the mantissas: 0 iff the vectors are orthogonal.
RECURSIVE MantissaDot(_, _, _)
MantissaDot(a, b, i) ==
    IF i > Len(a) THEN 0 ELSE a[i].m * b[i].m + MantissaDot(a, b, i + 1)

\* C15: cosineSimilarity is exactly 0 when the lengths differ or are 0 or an
\* operand is a zero vector, 0 for two orthogonal non-zero vectors, and 1
\* (up to rounding) for a non-zero vector and itself.
C15_CosineOfSpecialPairs ==
    vPc = "compared"
    => /\ (Len(vA) # Len(vB) \/ Len(vA) = 0 \/ IsZeroVector(vA) \/ IsZeroVector(vB))
              => vScore.kind = "zero"
       /\ (Len(vA) = Len(vB) /\ ~IsZeroVector(vA) /\ ~IsZeroVector(vB)
               /\ MantissaDot(vA, vB, 1) = 0)
              => vScore.kind = "zero"
       /\ (vA = vB /\ ~IsZeroVector(vA))
              => /\ vScore.kind = "ratio"
                 /\ vScore.dot = vScore.normA
                 /\ vScore.dot = vScore.normB

====
